---- MODULE Spec2Model ----
(***************************************************************************)
(* Model of the Buffer state machine of src/buffer.cc: the shared state    *)
(* guarded by mu_, the write lease of UpdateState, the read-wait path      *)
(* NextNotification with its debounce loop, SinkResponse, the listener     *)
(* set, and the driver threads of the three collaborator shapes.           *)
(*                                                                         *)
(* Every action is one critical section of mu_ (or one blocking wait       *)
(* followed by the critical section it guards).  A collaborator call       *)
(* (Edit, Pull, Push) runs outside the lock; its return is folded into the *)
(* first critical section that follows it.  CollaboratorStats timestamps   *)
(* (MarkRequest, MarkChange, MarkResponse) are only read by ProfileData    *)
(* and are not part of the state.  AwaitWithTimeout releases mu_ whenever   *)
(* its condition is false, also when the timeout has already expired.      *)
(* The clock advances only in TimedSpec; the other specifications run       *)
(* within one clock instant, with all push delays zero.                    *)
(***************************************************************************)
EXTENDS Integers, Sequences, FiniteSets, TLC

\* ---------------------------------------------------------------- bounds
MaxCalls == 1       \* non-final responses a collaborator gives
MaxCmds  == 1       \* non-empty CommandSets created over a run
MaxPush  == 1       \* PushChanges calls of the owner
MaxListenCmds == 2  \* non-empty CommandSets (listener specification)
MaxTime  == 2       \* clock ticks (timed specification)
MaxDelay == 1       \* largest push delay (timed specification)

\* buffer.cc:49  last_used_(absl::Now() - absl::Seconds(1000000))
InitialIdle == 1000000

\* ---------------------------------------------------------------- threads
Main == <<0, "main">>
Slots == {1, 2}
Drivers == Slots \X {"drv", "push"}
Threads == {Main} \cup Drivers
\* The content of the CollaboratorRegistry: the shapes added, in order.
Mixes == {<<"sync">>, <<"async">>, <<"command">>,
          <<"sync", "sync">>, <<"command", "command">>}
\* The registries of the fair specification add the mixed pairs.
FairMixes == Mixes \cup {<<"sync", "async">>, <<"sync", "command">>,
                         <<"async", "command">>}

\* Registries of the listener and of the timed specification.
ListenMixes == {<<"sync">>, <<"async">>, <<"command">>}
TimedMixes == {<<"sync">>, <<"async">>, <<"command">>}

UserListener == <<0, "listener">>
CmdListener(c) == <<c, "listener">>

VARIABLES
  mix,            \* registry content (fixed per run)
  delay_idle,     \* push_delay_from_idle() per collaborator
  delay_start,    \* push_delay_from_start() per collaborator
  now,            \* absl::Now()
  state_,         \* EditNotification state_
  version_,       \* uint64_t version_
  updating_,      \* bool updating_
  last_used_,     \* absl::Time last_used_
  collaborators_,               \* ids of the collaborators added
  done_collaborators_,
  declared_no_edit_collaborators_,
  listeners_,
  pc,             \* position of every thread
  last_processed, \* processed_version of RunPush / RunSync
  resp,           \* the EditResponse / CommandSet a thread is sinking
  copy,           \* UpdateState's local `state`
  deb,            \* locals of the debounce loop
  dtor,           \* ~Buffer has been entered
  lim,            \* what the environment does in this run (fixed per run)
  calls,          \* responses returned so far per collaborator
  pushes,         \* PushChanges calls so far
  nextCmd,        \* next fresh command id
  lst,            \* the client's listener: "off", "on", "dropped"
  initial,        \* content passed to the listener's initial callback
  received,       \* CommandSets passed to the listener's update callback
  regClean,       \* listener was registered before any publish or commit
  broke           \* threads that ended because a collaborator call raised

vars == <<mix, delay_idle, delay_start, lim, now, state_, version_, updating_,
          last_used_, collaborators_, done_collaborators_,
          declared_no_edit_collaborators_, listeners_, pc, last_processed,
          resp, copy, deb, dtor, calls, pushes, nextCmd, lst, initial,
          received, regClean, broke>>

\* ---------------------------------------------------------------- values
\* AnnotatedString is the sequence of command ids integrated so far; a
\* CommandSet is a sequence of command ids (empty: no commands).
Integrate(content, commands) == content \o commands

EditNotification0 ==
  [content |-> <<>>, fully_loaded |-> FALSE,
   referenced_file_version |-> 0, shutdown |-> FALSE]

NoResponse ==
  [content_updates |-> <<>>, become_used |-> FALSE, become_loaded |-> FALSE,
   referenced_file_changed |-> FALSE, done |-> FALSE]

CommandsOnly(cmds) == [NoResponse EXCEPT !.content_updates = cmds]

NoDebounce == [first_saw_change |-> 0, last_used_at_start |-> 0,
               deadline |-> 0, waited |-> FALSE]

\* The flags of an EditResponse other than done.
Flags(used, loaded, changed) ==
  [become_used |-> used, become_loaded |-> loaded,
   referenced_file_changed |-> changed]

Max(a, b) == IF a >= b THEN a ELSE b

CollabOther(t) == 3 - t[1]

Collab(t) == t[1]
Role(t) == t[2]
ShapeOf(c) == mix[c]

Kind(t) ==
  IF t = Main THEN "main"
  ELSE IF Role(t) = "push" THEN "push"
  ELSE IF Collab(t) > Len(mix) THEN "none"
  ELSE IF ShapeOf(Collab(t)) = "sync" THEN "sync"
  ELSE IF ShapeOf(Collab(t)) = "async" THEN "pull"
  ELSE "cmd"

cfgv == <<mix, delay_idle, delay_start, lim>>
lsnv == <<lst, initial, regClean>>
envv == <<calls, pushes, nextCmd>>

\* A writer has published its CommandSet and has not committed it yet.
InFlight == \E t \in Threads : pc[t] \in {"lease", "commit"} /\ ~(t = Main /\ dtor)

\* ---------------------------------------------------------------- Init
InitCommon ==
  /\ now = 0
  /\ state_ = EditNotification0
  /\ version_ = 0
  /\ updating_ = FALSE
  /\ last_used_ = now - InitialIdle
  /\ collaborators_ = {}
  /\ done_collaborators_ = {}
  /\ declared_no_edit_collaborators_ = {}
  /\ listeners_ = {}
  /\ pc = [t \in Threads |-> IF t = Main THEN "idle" ELSE "none"]
  /\ last_processed = [t \in Threads |-> 0]
  /\ resp = [t \in Threads |-> NoResponse]
  /\ copy = [t \in Threads |-> EditNotification0]
  /\ deb = [t \in Threads |-> NoDebounce]
  /\ dtor = FALSE
  /\ calls = [c \in Slots |-> 0]
  /\ pushes = 0
  /\ nextCmd = 1
  /\ lst = "off"
  /\ initial = <<>>
  /\ received = <<>>
  /\ regClean = FALSE
  /\ broke = {}

\* Every mix of collaborator shapes, all push delays zero; responses carry
\* commands, become_loaded and done.
Init ==
  /\ mix \in Mixes
  /\ delay_idle = [c \in Slots |-> 0]
  /\ delay_start = [c \in Slots |-> 0]
  /\ lim = [calls |-> MaxCalls, cmds |-> MaxCmds, pushes |-> MaxPush,
            flags |-> {Flags(FALSE, FALSE, FALSE), Flags(FALSE, TRUE, FALSE)}]
  /\ InitCommon

\* As Init, with the mixed pairs of collaborators.
InitFair ==
  /\ mix \in FairMixes
  /\ delay_idle = [c \in Slots |-> 0]
  /\ delay_start = [c \in Slots |-> 0]
  /\ lim = [calls |-> MaxCalls, cmds |-> MaxCmds, pushes |-> MaxPush,
            flags |-> {Flags(FALSE, FALSE, FALSE), Flags(FALSE, TRUE, FALSE)}]
  /\ InitCommon

\* Writers that only send commands, with a client listener.
InitListen ==
  /\ mix \in ListenMixes
  /\ delay_idle = [c \in Slots |-> 0]
  /\ delay_start = [c \in Slots |-> 0]
  /\ lim = [calls |-> MaxCalls, cmds |-> MaxListenCmds, pushes |-> MaxPush,
            flags |-> {Flags(FALSE, FALSE, FALSE)}]
  /\ InitCommon

\* One collaborator with push delays up to MaxDelay; all CommandSets are
\* empty, responses carry become_used, become_loaded and done.
InitTimed ==
  /\ mix \in TimedMixes
  /\ delay_idle \in [Slots -> 0..MaxDelay]
  /\ delay_start \in [Slots -> 0..MaxDelay]
  /\ \A c \in Slots : c > Len(mix) => delay_idle[c] = 0 /\ delay_start[c] = 0
  /\ lim = [calls |-> MaxCalls, cmds |-> 0, pushes |-> MaxPush,
            flags |-> {Flags(FALSE, FALSE, FALSE), Flags(TRUE, FALSE, FALSE),
                       Flags(TRUE, TRUE, FALSE)}]
  /\ InitCommon

\* One collaborator whose responses carry commands, become_loaded or
\* referenced_file_changed.
InitFlags ==
  /\ mix \in ListenMixes
  /\ delay_idle = [c \in Slots |-> 0]
  /\ delay_start = [c \in Slots |-> 0]
  /\ lim = [calls |-> MaxCalls, cmds |-> MaxCmds, pushes |-> MaxPush,
            flags |-> {Flags(FALSE, FALSE, FALSE), Flags(FALSE, TRUE, FALSE),
                       Flags(FALSE, FALSE, TRUE)}]
  /\ InitCommon

\* One collaborator whose responses carry commands and become_used, with a
\* client listener that stays registered.
InitUsed ==
  /\ mix \in ListenMixes
  /\ delay_idle = [c \in Slots |-> 0]
  /\ delay_start = [c \in Slots |-> 0]
  /\ lim = [calls |-> MaxCalls, cmds |-> MaxCmds, pushes |-> MaxPush,
            flags |-> {Flags(FALSE, FALSE, FALSE), Flags(TRUE, FALSE, FALSE)}]
  /\ InitCommon

\* One or two sync collaborators that answer by a fixed script (see
\* ScriptedResponses); lim.calls is the number k of non-empty answers of the
\* second collaborator.
InitScript ==
  /\ mix \in {<<"sync">>, <<"sync", "sync">>}
  /\ delay_idle = [c \in Slots |-> 0]
  /\ delay_start = [c \in Slots |-> 0]
  /\ \E k \in 0..MaxCalls :
       lim = [calls |-> k, cmds |-> MaxCalls + MaxPush, pushes |-> MaxPush,
              flags |-> {Flags(FALSE, FALSE, FALSE)}]
  /\ InitCommon

\* One async collaborator with push_delay_from_idle > 0 and
\* push_delay_from_start = 0; responses carry commands, become_used and done.
InitDebounce ==
  /\ mix = <<"async">>
  /\ \E d \in 1..MaxDelay : delay_idle = [c \in Slots |-> IF c = 1 THEN d ELSE 0]
  /\ delay_start = [c \in Slots |-> 0]
  /\ lim = [calls |-> MaxCalls, cmds |-> MaxCmds, pushes |-> MaxPush,
            flags |-> {Flags(FALSE, FALSE, FALSE), Flags(TRUE, FALSE, FALSE)}]
  /\ InitCommon

\* ---------------------------------------------------------------- AddCollaborator
\* The init thread runs the registry: collaborators are added one by one,
\* each starting its driver thread(s).
AddCollaborator(c) ==
  /\ ~dtor
  /\ c = Cardinality(collaborators_) + 1
  /\ c <= Len(mix)
  /\ collaborators_' = collaborators_ \cup {c}
  /\ pc' = [t \in Threads |->
              IF t = <<c, "drv">>
              THEN (IF mix[c] = "sync" THEN "next"
                    ELSE IF mix[c] = "async" THEN "call" ELSE "start")
              ELSE IF t = <<c, "push">> /\ mix[c] = "async" THEN "next"
              ELSE pc[t]]
  /\ UNCHANGED <<cfgv, now, state_, version_, updating_, last_used_,
                 done_collaborators_, declared_no_edit_collaborators_,
                 listeners_, last_processed, resp, copy, deb, dtor, envv,
                 lsnv, received, broke>>

\* ---------------------------------------------------------------- NextNotification
all_edits_complete ==
  /\ state_.shutdown
  /\ Cardinality(declared_no_edit_collaborators_) = Cardinality(collaborators_)

processableAlways(t) == TRUE

processable(t) == version_ # last_processed[t] \/ all_edits_complete

\* The timeout handed to AwaitWithTimeout.
TimeoutMin(c, first_saw_change) ==
  LET idle_time == now - last_used_
      time_from_change == now - first_saw_change
      a == delay_idle[c] - idle_time
      b == delay_start[c] - time_from_change
  IN  IF a <= b THEN a ELSE b

Timeout(c, first_saw_change) ==
  LET idle_time == now - last_used_
      time_from_change == now - first_saw_change
  IN  Max(delay_idle[c] - idle_time, delay_start[c] - time_from_change)

\* One pass of the do-loop up to AwaitWithTimeout, which releases mu_.
EnterAwait(t, first_saw_change) ==
  /\ pc' = [pc EXCEPT ![t] = "await"]
  /\ deb' = [deb EXCEPT ![t] =
               [first_saw_change |-> first_saw_change,
                last_used_at_start |-> last_used_,
                deadline |-> now + Timeout(Collab(t), first_saw_change),
                waited |-> deb[t].waited \/
                           Timeout(Collab(t), first_saw_change) > 0]]
  /\ UNCHANGED last_processed

ReturnNotificationUnrecorded(t, waited) ==
  /\ pc' = [pc EXCEPT ![t] = "call"]
  /\ deb' = [deb EXCEPT ![t] = [NoDebounce EXCEPT !.waited = waited]]
  /\ UNCHANGED last_processed

\* *last_processed = version_; return state_.
ReturnNotification(t, waited) ==
  /\ pc' = [pc EXCEPT ![t] = "call"]
  /\ last_processed' = [last_processed EXCEPT ![t] = version_]
  /\ deb' = [deb EXCEPT ![t] = [NoDebounce EXCEPT !.waited = waited]]

NextNotification(t) ==
  /\ pc[t] = "next"
  /\ processable(t)
  /\ IF version_ # last_processed[t]
     THEN /\ IF ~state_.shutdown /\ last_processed[t] # 0
             THEN EnterAwait(t, now)
             ELSE ReturnNotification(t, FALSE)
          /\ UNCHANGED done_collaborators_
     ELSE /\ done_collaborators_' = done_collaborators_ \cup {Collab(t)}
          /\ pc' = [pc EXCEPT ![t] = "exited"]
          /\ UNCHANGED <<last_processed, deb>>
  /\ UNCHANGED <<cfgv, now, state_, version_, updating_, last_used_,
                 collaborators_, declared_no_edit_collaborators_, listeners_,
                 resp, copy, dtor, envv, lsnv, received, broke>>

\* while (last_used_ != last_used_at_start && !state_.shutdown)
DebounceAgainNever(t) == FALSE

DebounceAgain(t) ==
  last_used_ # deb[t].last_used_at_start /\ ~state_.shutdown

\* AwaitWithTimeout returns: the condition holds or the timeout expired.
AwaitWake(t) ==
  /\ pc[t] = "await"
  /\ state_.shutdown \/ now >= deb[t].deadline
  /\ IF ~state_.shutdown /\ DebounceAgain(t)
     THEN EnterAwait(t, deb[t].first_saw_change)
     ELSE ReturnNotification(t, deb[t].waited /\ ~state_.shutdown)
  /\ UNCHANGED <<cfgv, now, state_, version_, updating_, last_used_,
                 collaborators_, done_collaborators_,
                 declared_no_edit_collaborators_, listeners_,
                 resp, copy, dtor, envv, lsnv, received, broke>>

\* ---------------------------------------------------------------- collaborators
\* A fresh non-empty CommandSet, or the empty one.
CommandSets == {<<>>} \cup (IF nextCmd <= lim.cmds THEN {<<nextCmd>>} ELSE {})

\* What Edit / Pull of collaborator c may return: any response, the last
\* permitted one with done set.
Responses(c) ==
  {r \in [content_updates : CommandSets, become_used : BOOLEAN,
          become_loaded : BOOLEAN, referenced_file_changed : BOOLEAN,
          done : BOOLEAN] :
     /\ Flags(r.become_used, r.become_loaded, r.referenced_file_changed)
          \in lim.flags
     /\ calls[c] >= lim.calls => r.done}

\* Edit of a scripted sync collaborator: the first collaborator answers its
\* first notification with an empty response and done; the second answers
\* lim.calls notifications with a fresh non-empty CommandSet each and the
\* next one with an empty response and done.
ScriptedResponses(c) ==
  IF c = 2 /\ calls[c] < lim.calls
  THEN {[CommandsOnly(cmds) EXCEPT !.done = FALSE] :
          cmds \in CommandSets \ {<<>>}}
  ELSE {[NoResponse EXCEPT !.done = TRUE]}

Consume(c, cmds) ==
  /\ calls' = [calls EXCEPT ![c] = @ + 1]
  /\ nextCmd' = IF cmds # <<>> THEN nextCmd + 1 ELSE nextCmd

\* ---------------------------------------------------------------- listeners
\* for (auto* l : listeners_) l->Update(commands);  the listener of a
\* command collaborator forwards to collab_->Push, which has no effect on
\* the buffer.
PublishToListenersSkipped(commands) == received' = received

PublishToListeners(commands) ==
  received' = IF UserListener \in listeners_
              THEN Append(received, commands) ELSE received

ListenEmptyInitial ==
  /\ lst = "off"
  /\ ~dtor
  /\ listeners_' = listeners_ \cup {UserListener}
  /\ initial' = <<>>
  /\ lst' = "on"
  /\ regClean' = (version_ = 0 /\ ~InFlight)
  /\ UNCHANGED <<cfgv, now, state_, version_, updating_, last_used_,
                 collaborators_, done_collaborators_,
                 declared_no_edit_collaborators_, pc, last_processed, resp,
                 copy, deb, dtor, envv, received, broke>>

\* Buffer::Listen -> BufferListener::Start, called by a client thread.
Listen ==
  /\ lst = "off"
  /\ ~dtor
  /\ listeners_' = listeners_ \cup {UserListener}
  /\ initial' = state_.content
  /\ lst' = "on"
  /\ regClean' = (version_ = 0 /\ ~InFlight)
  /\ UNCHANGED <<cfgv, now, state_, version_, updating_, last_used_,
                 collaborators_, done_collaborators_,
                 declared_no_edit_collaborators_, pc, last_processed, resp,
                 copy, deb, dtor, envv, received, broke>>

\* BufferListener::~BufferListener: the client drops its handle.
Unlisten ==
  /\ lst = "on"
  /\ ~dtor
  /\ listeners_' = listeners_ \ {UserListener}
  /\ lst' = "dropped"
  /\ UNCHANGED <<cfgv, now, state_, version_, updating_, last_used_,
                 collaborators_, done_collaborators_,
                 declared_no_edit_collaborators_, pc, last_processed, resp,
                 copy, deb, dtor, envv, initial, received, regClean, broke>>

\* ---------------------------------------------------------------- UpdateState
HasUpdatesAlways(response) == TRUE

HasUpdates(response) ==
  \/ response.become_loaded
  \/ response.referenced_file_changed
  \/ response.content_updates # <<>>

IntegrateResponse(response, state) ==
  [state EXCEPT
     !.content = Integrate(state.content, response.content_updates),
     !.fully_loaded = IF response.become_loaded THEN TRUE ELSE @,
     !.referenced_file_version =
        IF response.referenced_file_changed THEN @ + 1 ELSE @]

\* The mutator f each caller of UpdateState passes.
Mutator(t, state) ==
  IF t = Main
  THEN (IF dtor THEN [state EXCEPT !.shutdown = TRUE]
        ELSE [state EXCEPT
                !.content = Integrate(state.content, resp[t].content_updates)])
  ELSE IF Kind(t) = "cmd"
  THEN [state EXCEPT
          !.content = Integrate(state.content, resp[t].content_updates)]
  ELSE IntegrateResponse(resp[t], state)

\* mu_.LockWhen(absl::Condition(&updatable))
updatableAlways == TRUE

updatable == ~updating_

\* get the update lock
UpdateStateAcquire(t) ==
  /\ pc[t] = "lease"
  /\ updatable
  /\ updating_' = TRUE
  /\ copy' = [copy EXCEPT ![t] = state_]
  /\ pc' = [pc EXCEPT ![t] = "commit"]
  /\ UNCHANGED <<cfgv, now, state_, version_, last_used_, collaborators_,
                 done_collaborators_, declared_no_edit_collaborators_,
                 listeners_, last_processed, resp, deb, dtor, envv, lsnv,
                 received, broke>>

\* Where a thread continues after UpdateState returns.
AfterCommit(t) ==
  IF t = Main THEN (IF dtor THEN "join" ELSE "idle")
  ELSE IF Kind(t) = "cmd"
  THEN (IF copy[t].shutdown THEN "unlisten" ELSE "call")
  ELSE IF resp[t].done THEN "done"
  ELSE IF Kind(t) = "sync" THEN "next" ELSE "call"

\* version_++
NextVersionSame(v) == v

NextVersion(v) == v + 1

\* f(state); commit the update and advance time
UpdateStateCommit(t) ==
  /\ pc[t] = "commit"
  /\ updating_' = FALSE
  /\ version_' = NextVersion(version_)
  /\ declared_no_edit_collaborators_' = done_collaborators_
  /\ state_' = Mutator(t, copy[t])
  /\ last_used_' = IF t # Main /\ resp[t].become_used THEN now ELSE last_used_
  /\ pc' = [pc EXCEPT ![t] = AfterCommit(t)]
  /\ copy' = [copy EXCEPT ![t] = EditNotification0]
  /\ resp' = [resp EXCEPT ![t] = NoResponse]
  /\ UNCHANGED <<cfgv, now, collaborators_, done_collaborators_, listeners_,
                 last_processed, deb, dtor, envv, lsnv, received, broke>>

\* ---------------------------------------------------------------- SinkResponse
\* Edit (sync driver) or Pull (pull driver) returns r; SinkResponse runs up
\* to the end of its first critical section that touches the buffer.
SinkResponse(t, r) ==
  /\ pc[t] = "call"
  /\ Kind(t) \in {"sync", "pull"}
  /\ Consume(Collab(t), r.content_updates)
  /\ IF HasUpdates(r)
     THEN /\ PublishToListeners(r.content_updates)
          /\ resp' = [resp EXCEPT ![t] = r]
          /\ pc' = [pc EXCEPT ![t] = "lease"]
          /\ UNCHANGED <<last_used_, declared_no_edit_collaborators_>>
     ELSE /\ last_used_' = IF r.become_used THEN now ELSE last_used_
          /\ declared_no_edit_collaborators_' =
               declared_no_edit_collaborators_ \cup {Collab(t)}
          /\ pc' = [pc EXCEPT ![t] =
                      IF r.done THEN "done"
                      ELSE IF Kind(t) = "sync" THEN "next" ELSE "call"]
          /\ UNCHANGED <<resp, received>>
  /\ UNCHANGED <<cfgv, now, state_, version_, updating_, collaborators_,
                 done_collaborators_, listeners_, last_processed, copy, deb,
                 dtor, pushes, lsnv, broke>>

\* if (response.done) { done_collaborators_.insert; throw Shutdown(); }
\* RunSync / RunPull return and the lambda's tail inserts the same
\* collaborator once more, which changes nothing.
SinkResponseDone(t) ==
  /\ pc[t] = "done"
  /\ done_collaborators_' = done_collaborators_ \cup {Collab(t)}
  /\ pc' = [pc EXCEPT ![t] = "exited"]
  /\ UNCHANGED <<cfgv, now, state_, version_, updating_, last_used_,
                 collaborators_, declared_no_edit_collaborators_, listeners_,
                 last_processed, resp, copy, deb, dtor, envv, lsnv, received,
                 broke>>

\* The tail of the command driver's lambda, after its listener is gone:
\* done_collaborators_.insert(raw).
DriverExit(t) ==
  /\ pc[t] = "finish"
  /\ done_collaborators_' = done_collaborators_ \cup {Collab(t)}
  /\ pc' = [pc EXCEPT ![t] = "exited"]
  /\ UNCHANGED <<cfgv, now, state_, version_, updating_, last_used_,
                 collaborators_, declared_no_edit_collaborators_, listeners_,
                 last_processed, resp, copy, deb, dtor, envv, lsnv, received,
                 broke>>

\* Edit or Pull raises std::exception: the lambda's catch logs it and the
\* thread's tail records the collaborator as done.
CollaboratorRaises(t) ==
  /\ pc[t] = "call"
  /\ Kind(t) \in {"sync", "pull"}
  /\ done_collaborators_' = done_collaborators_ \cup {Collab(t)}
  /\ pc' = [pc EXCEPT ![t] = "exited"]
  /\ broke' = broke \cup {t}
  /\ UNCHANGED <<cfgv, now, state_, version_, updating_, last_used_,
                 collaborators_, declared_no_edit_collaborators_, listeners_,
                 last_processed, resp, copy, deb, dtor, envv, lsnv, received>>

\* raw->Pull of a command collaborator raises: the listener is unwound
\* first, then the catch and the tail run.
CommandRaises(t) ==
  /\ pc[t] = "call"
  /\ Kind(t) = "cmd"
  /\ pc' = [pc EXCEPT ![t] = "unlisten"]
  /\ broke' = broke \cup {t}
  /\ UNCHANGED <<cfgv, now, state_, version_, updating_, last_used_,
                 collaborators_, done_collaborators_,
                 declared_no_edit_collaborators_, listeners_, last_processed,
                 resp, copy, deb, dtor, envv, lsnv, received>>

\* ---------------------------------------------------------------- RunPush
\* collaborator->Push(notification) returns; the loop calls
\* NextNotification again.
PushReturns(t) ==
  /\ pc[t] = "call"
  /\ Kind(t) = "push"
  /\ pc' = [pc EXCEPT ![t] = "next"]
  /\ UNCHANGED <<cfgv, now, state_, version_, updating_, last_used_,
                 collaborators_, done_collaborators_,
                 declared_no_edit_collaborators_, listeners_, last_processed,
                 resp, copy, deb, dtor, envv, lsnv, received, broke>>

\* collaborator->Push raises: the push lambda catches, logs and returns.
PushRaises(t) ==
  /\ pc[t] = "call"
  /\ Kind(t) = "push"
  /\ pc' = [pc EXCEPT ![t] = "exited"]
  /\ broke' = broke \cup {t}
  /\ UNCHANGED <<cfgv, now, state_, version_, updating_, last_used_,
                 collaborators_, done_collaborators_,
                 declared_no_edit_collaborators_, listeners_, last_processed,
                 resp, copy, deb, dtor, envv, lsnv, received>>

\* ---------------------------------------------------------------- command driver
\* listener->Start([](const AnnotatedString&) {})
CommandStart(t) ==
  /\ pc[t] = "start"
  /\ listeners_' = listeners_ \cup {CmdListener(Collab(t))}
  /\ pc' = [pc EXCEPT ![t] = "call"]
  /\ UNCHANGED <<cfgv, now, state_, version_, updating_, last_used_,
                 collaborators_, done_collaborators_,
                 declared_no_edit_collaborators_, last_processed, resp, copy,
                 deb, dtor, envv, lsnv, received, broke>>

\* raw->Pull(&commands) returns; PublishToListeners(&commands).  Pull blocks
\* once the collaborator has given its MaxCalls CommandSets, until shutdown.
CommandPull(t, cmds) ==
  /\ pc[t] = "call"
  /\ Kind(t) = "cmd"
  /\ calls[Collab(t)] < lim.calls \/ state_.shutdown
  /\ Consume(Collab(t), cmds)
  /\ PublishToListeners(cmds)
  /\ resp' = [resp EXCEPT ![t] = CommandsOnly(cmds)]
  /\ pc' = [pc EXCEPT ![t] = "lease"]
  /\ UNCHANGED <<cfgv, now, state_, version_, updating_, last_used_,
                 collaborators_, done_collaborators_,
                 declared_no_edit_collaborators_, listeners_, last_processed,
                 copy, deb, dtor, pushes, lsnv, broke>>

\* The unique_ptr<Listener> leaves scope: ~BufferListener erases it.
CommandUnlisten(t) ==
  /\ pc[t] = "unlisten"
  /\ listeners_' = listeners_ \ {CmdListener(Collab(t))}
  /\ pc' = [pc EXCEPT ![t] = "finish"]
  /\ UNCHANGED <<cfgv, now, state_, version_, updating_, last_used_,
                 collaborators_, done_collaborators_,
                 declared_no_edit_collaborators_, last_processed, resp, copy,
                 deb, dtor, envv, lsnv, received, broke>>

\* ---------------------------------------------------------------- owner
\* PushChanges: PublishToListeners(commands), then UpdateState.
PushChanges(cmds) ==
  /\ pc[Main] = "idle"
  /\ pushes < lim.pushes
  /\ pushes' = pushes + 1
  /\ nextCmd' = IF cmds # <<>> THEN nextCmd + 1 ELSE nextCmd
  /\ PublishToListeners(cmds)
  /\ resp' = [resp EXCEPT ![Main] = CommandsOnly(cmds)]
  /\ pc' = [pc EXCEPT ![Main] = "lease"]
  /\ UNCHANGED <<cfgv, now, state_, version_, updating_, last_used_,
                 collaborators_, done_collaborators_,
                 declared_no_edit_collaborators_, listeners_, last_processed,
                 copy, deb, dtor, calls, lsnv, broke>>

\* ~Buffer: init_thread_.join(), then UpdateState(shutdown = true).
Destroy ==
  /\ pc[Main] = "idle"
  /\ Cardinality(collaborators_) = Len(mix)
  /\ dtor' = TRUE
  /\ pc' = [pc EXCEPT ![Main] = "lease"]
  /\ UNCHANGED <<cfgv, now, state_, version_, updating_, last_used_,
                 collaborators_, done_collaborators_,
                 declared_no_edit_collaborators_, listeners_, last_processed,
                 resp, copy, deb, envv, lsnv, received, broke>>

AllDriversExited == \A t \in Drivers : pc[t] \in {"none", "exited"}

\* for (auto& t : collaborator_threads_) t.join();
Join ==
  /\ pc[Main] = "join"
  /\ AllDriversExited
  /\ pc' = [pc EXCEPT ![Main] = "destroyed"]
  /\ UNCHANGED <<cfgv, now, state_, version_, updating_, last_used_,
                 collaborators_, done_collaborators_,
                 declared_no_edit_collaborators_, listeners_, last_processed,
                 resp, copy, deb, dtor, envv, lsnv, received, broke>>

\* ---------------------------------------------------------------- clock
Tick ==
  /\ now < MaxTime
  /\ now' = now + 1
  /\ UNCHANGED <<cfgv, state_, version_, updating_, last_used_,
                 collaborators_, done_collaborators_,
                 declared_no_edit_collaborators_, listeners_, pc,
                 last_processed, resp, copy, deb, dtor, envv, lsnv, received,
                 broke>>

\* ---------------------------------------------------------------- specifications
DriverStep(t) ==
  \/ NextNotification(t)
  \/ AwaitWake(t)
  \/ \E r \in Responses(Collab(t)) : SinkResponse(t, r)
  \/ SinkResponseDone(t)
  \/ DriverExit(t)
  \/ CollaboratorRaises(t)
  \/ CommandRaises(t)
  \/ PushReturns(t)
  \/ PushRaises(t)
  \/ CommandStart(t)
  \/ \E cmds \in CommandSets : CommandPull(t, cmds)
  \/ CommandUnlisten(t)
  \/ UpdateStateAcquire(t)
  \/ UpdateStateCommit(t)

MainStep ==
  \/ \E cmds \in CommandSets : PushChanges(cmds)
  \/ Destroy
  \/ UpdateStateAcquire(Main)
  \/ UpdateStateCommit(Main)
  \/ Join

Next ==
  \/ \E c \in Slots : AddCollaborator(c)
  \/ \E t \in Drivers : DriverStep(t)
  \/ MainStep

Spec == Init /\ [][Next]_vars

ListenNext == Next \/ Listen \/ Unlisten

ListenSpec == InitListen /\ [][ListenNext]_vars

TimedNext == Next \/ Tick

TimedSpec == InitTimed /\ [][TimedNext]_vars

FlagSpec == InitFlags /\ [][Next]_vars

UsedNext == Next \/ Listen

UsedSpec == InitUsed /\ [][UsedNext]_vars

ScriptStep(t) ==
  \/ NextNotification(t)
  \/ AwaitWake(t)
  \/ \E r \in ScriptedResponses(Collab(t)) : SinkResponse(t, r)
  \/ SinkResponseDone(t)
  \/ UpdateStateAcquire(t)
  \/ UpdateStateCommit(t)

ScriptNext ==
  \/ \E c \in Slots : AddCollaborator(c)
  \/ \E t \in Drivers : ScriptStep(t)
  \/ MainStep

\* Every driver thread and the owner's UpdateState and join keep running;
\* the owner is free to destroy the buffer or not.
ScriptSpec ==
  /\ InitScript /\ [][ScriptNext]_vars
  /\ \A t \in Drivers : WF_vars(ScriptStep(t))
  /\ WF_vars(UpdateStateAcquire(Main) \/ UpdateStateCommit(Main) \/ Join)

\* The steps of the pull and push threads of an async collaborator.
AsyncStep(t) ==
  \/ NextNotification(t)
  \/ AwaitWake(t)
  \/ \E r \in Responses(Collab(t)) : SinkResponse(t, r)
  \/ SinkResponseDone(t)
  \/ CollaboratorRaises(t)
  \/ PushReturns(t)
  \/ PushRaises(t)
  \/ UpdateStateAcquire(t)
  \/ UpdateStateCommit(t)

\* The owner injects changes while the buffer lives.
OwnerStep ==
  \/ \E cmds \in CommandSets : PushChanges(cmds)
  \/ UpdateStateAcquire(Main)
  \/ UpdateStateCommit(Main)

DebounceNext ==
  \/ \E c \in Slots : AddCollaborator(c)
  \/ \E t \in Drivers : AsyncStep(t)
  \/ OwnerStep
  \/ Tick

\* The buffer before its destruction: threads keep running and the clock
\* keeps advancing up to MaxTime.
DebounceSpec ==
  /\ InitDebounce /\ [][DebounceNext]_vars
  /\ WF_vars(AsyncStep(<<1, "drv">>)) /\ WF_vars(AsyncStep(<<1, "push">>))
  /\ WF_vars(UpdateStateAcquire(Main) \/ UpdateStateCommit(Main))
  /\ WF_vars(Tick)

FairSpec ==
  /\ InitFair /\ [][Next]_vars
  /\ \A t \in Drivers : WF_vars(DriverStep(t))
  /\ WF_vars(UpdateStateAcquire(Main) \/ UpdateStateCommit(Main) \/ Join)

\* ================================================================ claims
RECURSIVE IntegrateAll(_, _)
IntegrateAll(content, sets) ==
  IF sets = <<>> THEN content
  ELSE IntegrateAll(Integrate(content, Head(sets)), Tail(sets))

Writers == {t \in Threads : pc[t] = "commit"}

\* C1: once destruction has started, every driver thread eventually exits
\* and the destructor's join completes.
C1_QuiescentTermination == dtor ~> (pc[Main] = "destroyed")

\* C2: at most one thread is between the lease acquisition of UpdateState
\* and its commit.
C2_SingleWriter == Cardinality(Writers) <= 1

C2_Witness ==
  \E t \in Drivers, u \in Threads :
    t # u /\ pc[t] = "commit" /\ pc[u] = "lease" /\ updating_

\* C3: a listener registered at any moment holds, whenever no publish is
\* pending its commit, a replica equal to state.content.
C3_ListenerComplete ==
  (lst = "on" /\ ~InFlight) =>
    IntegrateAll(initial, received) = state_.content

\* C4: once done_collaborators equals the collaborators and shutdown is
\* set, version never changes again.
C4_NoCommitAfterQuiescence ==
  [][(done_collaborators_ = collaborators_ /\ state_.shutdown)
       => version_' = version_]_vars

\* C5: once a commit has installed shutdown, every later committed state
\* has shutdown set.
C5_ShutdownMonotonic == [][state_.shutdown => state_'.shutdown]_vars

C5_Witness ==
  \E t \in Drivers :
    /\ Kind(t) = "cmd" /\ pc[t] = "unlisten" /\ t \notin broke
    /\ state_.shutdown /\ version_ >= 2

\* C6 as stated: version starts at 0, grows by one per commit, and the
\* state changes if and only if version changes.
C6_StateIffVersion ==
  /\ version_ = 0
  /\ [][/\ version_' \in {version_, version_ + 1}
        /\ (state_' # state_) <=> (version_' # version_)]_vars

\* C6 amended: version starts at 0, never decreases, grows by exactly one at
\* every commit and at no other step, and the state changes only when
\* version changes (a commit may leave the state equal).
C6_MonotonicVersion ==
  /\ version_ = 0
  /\ [][/\ version_' \in {version_, version_ + 1}
        /\ (\E t \in Threads : pc[t] = "commit" /\ pc'[t] # "commit")
             <=> (version_' = version_ + 1)
        /\ (state_' # state_) => (version_' # version_)]_vars

C6_Witness == version_ >= 1 /\ state_ = EditNotification0

\* C7: a listener registered before any publish receives the committed
\* CommandSets in commit order: integrating them in received order gives
\* state.content.
C7_ListenerOrder ==
  (lst = "on" /\ regClean /\ ~InFlight) =>
    IntegrateAll(initial, received) = state_.content

\* C8: when a sync collaborator's edit raises, destruction still completes.
C8_FailureIsolation ==
  [](((\E t \in broke : Kind(t) = "sync") /\ dtor
       /\ (\A c \in 1..Len(mix) : mix[c] = "sync"))
      => <>(pc[Main] = "destroyed"))

\* C9: whenever a driver has exited, its collaborator is in
\* done_collaborators.
C9_ExitRecorded ==
  \A t \in Drivers : pc[t] = "exited" => Collab(t) \in done_collaborators_

\* C10: NextNotification returns a notification only when both push delays
\* have elapsed, measured against last_used as it is at the return, unless
\* shutdown is set or the driver's last_processed was 0.
C10_Debounce ==
  [][\A t \in Drivers :
       (pc[t] \in {"next", "await"} /\ pc'[t] = "call") =>
         \/ state_'.shutdown
         \/ last_processed[t] = 0
         \/ /\ pc[t] = "await"
            /\ now' - last_used_' >= delay_idle[Collab(t)]
            /\ now' - deb[t].first_saw_change >= delay_start[Collab(t)]]_vars

C10_Witness ==
  \E t \in Drivers :
    /\ pc[t] = "call" /\ Kind(t) \in {"sync", "push"}
    /\ deb[t].waited
    /\ ~state_.shutdown
    /\ last_used_ > 0

\* C15: for every sync or push driver the versions returned by
\* NextNotification are strictly increasing, and each return hands out the
\* version current at the return, also when commits happened during the wait.
C15_VersionOrder ==
  [][\A t \in Drivers :
       /\ last_processed'[t] >= last_processed[t]
       /\ (pc[t] \in {"next", "await"} /\ pc'[t] = "call") =>
            /\ last_processed'[t] > last_processed[t]
            /\ last_processed'[t] = version_']_vars

C15_Witness ==
  \E t \in Drivers, u \in Threads :
    /\ t # u /\ pc[t] = "await" /\ pc[u] = "commit"
    /\ last_processed[t] >= 1 /\ version_ > last_processed[t]

\* C16: whenever NextNotification raises the terminal condition for a
\* driver, that driver's last_processed equals version and
\* all_edits_complete() holds.
C16_TerminalAfterDraining ==
  [][\A t \in Drivers :
       (pc[t] = "next" /\ pc'[t] = "exited") =>
         /\ last_processed[t] = version_
         /\ all_edits_complete]_vars

C16_Witness ==
  \E t \in Drivers :
    /\ Kind(t) = "push" /\ pc[t] = "exited" /\ t \notin broke
    /\ last_processed[t] = version_ /\ version_ >= 2

\* C18: declared_no_edit_collaborators is a subset of the registered
\* collaborators, so the size comparison of all_edits_complete() is true
\* exactly when shutdown is set and the two sets are equal.
C18_QuiescenceIsSetEquality ==
  /\ declared_no_edit_collaborators_ \subseteq collaborators_
  /\ all_edits_complete <=>
       (state_.shutdown /\ declared_no_edit_collaborators_ = collaborators_)

C18_Witness ==
  /\ declared_no_edit_collaborators_ # {}
  /\ Cardinality(collaborators_) < Len(mix)

\* C19: sinking a response with empty commands, become_loaded = false and
\* referenced_file_changed = false leaves version, state, updating and the
\* listener set unchanged, invokes no listener and enters no UpdateState; it
\* changes only last_used (to now, if become_used), adds the collaborator to
\* declared_no_edit_collaborators and, if done, to done_collaborators.
C19_EmptyResponseFrame ==
  [][\A t \in Drivers :
       /\ ( /\ pc[t] = "call" /\ Kind(t) \in {"sync", "pull"}
            /\ calls'[Collab(t)] = calls[Collab(t)] + 1
            /\ nextCmd' = nextCmd
            /\ \A f \in lim.flags :
                 ~f.become_loaded /\ ~f.referenced_file_changed )
          => /\ UNCHANGED <<version_, state_, updating_, listeners_, received,
                            collaborators_, done_collaborators_>>
             /\ pc'[t] \in {"done", "next", "call"}
             /\ last_used_' \in {last_used_, now}
             /\ declared_no_edit_collaborators_' =
                  declared_no_edit_collaborators_ \cup {Collab(t)}
       /\ (pc[t] = "done" /\ pc'[t] = "exited")
          => /\ UNCHANGED <<version_, state_, updating_, listeners_, received,
                            collaborators_, last_used_,
                            declared_no_edit_collaborators_>>
             /\ done_collaborators_' = done_collaborators_ \cup {Collab(t)}]_vars

C19_Witness ==
  \E t \in Drivers :
    /\ Kind(t) = "sync" /\ pc[t] = "exited" /\ t \notin broke
    /\ lst = "on" /\ received = <<>>
    /\ version_ = 1 /\ state_.shutdown /\ last_used_ = now
    /\ Collab(t) \in declared_no_edit_collaborators_
    /\ Collab(t) \in done_collaborators_

\* C20: every commit installs its mutator applied to exactly the state the
\* previous commit installed: the copy taken at the lease is still state_,
\* the commands are integrated into the current content, fully_loaded is
\* joined with become_loaded, referenced_file_version grows by one exactly
\* under referenced_file_changed, and version grows by one.
C20_NoLostUpdate ==
  [][\A t \in Threads :
       (pc[t] = "commit" /\ pc'[t] # "commit") =>
         /\ version_' = version_ + 1
         /\ copy[t] = state_
         /\ state_' =
              [content |-> Integrate(state_.content, resp[t].content_updates),
               fully_loaded |-> state_.fully_loaded \/ resp[t].become_loaded,
               referenced_file_version |->
                 state_.referenced_file_version +
                   (IF resp[t].referenced_file_changed THEN 1 ELSE 0),
               shutdown |-> state_.shutdown \/ (t = Main /\ dtor)]]_vars

C20_Witness ==
  /\ version_ >= 3
  /\ state_.content # <<>>
  /\ state_.fully_loaded
  /\ state_.referenced_file_version = 1
  /\ state_.shutdown

\* C17: a CommandSet is delivered to the listeners registered at publish
\* time in the step that precedes its UpdateState, with state and version
\* still unchanged; deliveries are never withdrawn, so at the commit that
\* integrates the CommandSet a listener registered since before the publish
\* has already received it.
C17_PublishBeforeCommit ==
  [][/\ Len(received') >= Len(received)
     /\ SubSeq(received', 1, Len(received)) = received
     /\ \A t \in Threads :
          /\ (pc[t] \in {"idle", "call"} /\ pc'[t] = "lease" /\ ~dtor') =>
               /\ received' = IF UserListener \in listeners_
                              THEN Append(received, resp'[t].content_updates)
                              ELSE received
               /\ UNCHANGED <<state_, version_>>
          /\ (/\ pc[t] = "commit" /\ pc'[t] # "commit"
              /\ resp[t].content_updates # <<>>
              /\ lst = "on" /\ regClean) =>
               \E i \in 1..Len(received) :
                 received[i] = resp[t].content_updates]_vars

C17_Witness ==
  \E t \in Drivers :
    /\ pc[t] = "commit" /\ resp[t].content_updates # <<>>
    /\ lst = "on" /\ regClean
    /\ received = <<resp[t].content_updates>>
    /\ state_.content = <<>>

\* C14: a listener's initial callback runs exactly once, in the step that
\* inserts it into the listener set, with state.content as it is at that
\* step; no update reaches the listener before that step.
C14_ListenerInitial ==
  /\ [](lst = "off" => (received = <<>> /\ UserListener \notin listeners_))
  /\ [][/\ (lst = "off" /\ lst' # "off") =>
             /\ lst' = "on"
             /\ UserListener \in listeners_'
             /\ initial' = state_.content
             /\ UNCHANGED <<state_, version_, received>>
        /\ lst # "off" => (lst' # "off" /\ initial' = initial)]_vars

C14_Witness ==
  /\ lst = "on"
  /\ version_ >= 2
  /\ initial # <<>>
  /\ received # <<>>
  /\ IntegrateAll(initial, received) = state_.content

S1 == mix = <<"sync">> /\ pushes = 0

C12_SingleSyncNoEdits ==
  /\ [](S1 /\ version_ = 0 =>
          calls[1] = 0 /\ pc[<<1, "drv">>] \in {"none", "next"})
  /\ (S1 /\ dtor) ~>
       (pc[Main] = "destroyed" /\ version_ = 1 /\ calls[1] = 1)
  /\ [](S1 /\ pc[Main] = "destroyed" => version_ = 1 /\ calls[1] = 1)

C12_Witness ==
  /\ S1 /\ pc[Main] = "destroyed" /\ pc[<<1, "drv">>] = "exited"
  /\ version_ = 1 /\ calls[1] = 1

\* C13: with two sync collaborators, the first answering done at its first
\* notification and the second answering k non-empty responses and then
\* done, both drivers exit in every interleaving once a first version
\* exists, destruction completes, and the final version is at least k + 1.
S3 == mix = <<"sync", "sync">> /\ collaborators_ = {1, 2}

C13_TwoSyncQuiescence ==
  /\ (S3 /\ version_ >= 1) ~> AllDriversExited
  /\ (S3 /\ dtor) ~> (pc[Main] = "destroyed")
  /\ [](S3 /\ pc[Main] = "destroyed" =>
          /\ AllDriversExited
          /\ calls[1] = 1 /\ calls[2] = lim.calls + 1
          /\ version_ >= lim.calls + 1)

C13_Witness ==
  /\ S3 /\ pc[Main] = "destroyed" /\ AllDriversExited
  /\ lim.calls = MaxCalls /\ calls[2] = MaxCalls + 1
  /\ Len(state_.content) >= MaxCalls
  /\ version_ >= MaxCalls + 1

====
